---- MODULE Spec2Model ----
(***************************************************************************)
(* Model of the Blender-NGP add-on (src/blender_addon/__init__.py): the    *)
(* three operators "Generate cameras", "Clear cameras" and "Render", the   *)
(* panel properties they are fed from, and the part of the host's data     *)
(* (bpy.data.objects / cameras / collections, the scene's active camera,   *)
(* the render settings, the export directory) that they read and write.    *)
(*                                                                         *)
(* Names are sequences of ASCII codes, so that f-string formatting, the    *)
(* host's unique-name suffix, str.startswith and the name order in which   *)
(* the host iterates its ID collections are all computed, not assumed.     *)
(***************************************************************************)
EXTENDS Integers, Sequences, FiniteSets, TLC

VARIABLES
    props,          \* scene.bngp_props (BNGP_Props)
    tgt,            \* context.view_layer.objects.active is set (TRUE) or None
    d_objects,      \* bpy.data.objects, in the host's name order
    d_cameras,      \* bpy.data.cameras, in the host's name order
    d_collections,  \* bpy.data.collections, in the host's name order
    scene_camera,   \* context.scene.camera: an object name, or None
    render,         \* context.scene.render
    op,             \* the operator that ran last
    result,         \* what it returned or raised, and what it reported
    log,            \* the file-system events of the operator that ran last
    trans_dict,     \* the manifest dict built by the operator that ran last
    gens            \* history: H*V of every generation since the last clear

vars == <<props, tgt, d_objects, d_cameras, d_collections, scene_camera,
          render, op, result, log, trans_dict, gens>>

---------------------------------------------------------------------------
\* Bounds of the model.

\* n_cams_holi ranges over 1..MaxHoli in Spec
MaxHoli == 2
\* n_cams_vert ranges over 1..MaxVert in Spec
MaxVert == 2
\* Spec: a generation is taken only while the generated objects stay <= MaxObjs
MaxObjs == 4
\* SpecLarge: n_cams_holi ranges over LargeHoli..LargeHoli+1, n_cams_vert is 1
LargeHoli == 1000
\* SpecLarge: a generation is taken only while the generated objects stay <= LargeObjs
LargeObjs == 1001
\* SpecLarge: a render failure is injected at one of the first LargeFail cameras
LargeFail == 2

---------------------------------------------------------------------------
\* Strings (ASCII codes).

None == <<>>
\* 'BNGP'
PREFIX == <<66, 78, 71, 80>>
\* '__cam'
S_cam == <<95, 95, 99, 97, 109>>
\* '_'
S_us == <<95>>
\* '_coll'
S_coll == <<95, 99, 111, 108, 108>>
\* '.png'
S_png == <<46, 112, 110, 103>>
\* './'
S_dot_slash == <<46, 47>>
\* 'transforms.json'
S_transforms_json == <<116, 114, 97, 110, 115, 102, 111, 114, 109, 115, 46, 106, 115, 111, 110>>
\* 'Cube', 'Camera': the objects of the host's start-up scene
S_Cube == <<67, 117, 98, 101>>
S_Camera == <<67, 97, 109, 101, 114, 97>>

IsDigit(ch) == ch \in 48..57

\* str(n) for n >= 0
RECURSIVE DecDigits(_)
DecDigits(n) ==
    IF n < 10 THEN <<48 + n>> ELSE Append(DecDigits(n \div 10), 48 + (n % 10))

RECURSIVE ZeroPad(_, _)
ZeroPad(s, w) == IF Len(s) >= w THEN s ELSE ZeroPad(<<48>> \o s, w)

\* f'{n:03}': decimal, zero-padded to a width of at least 3
Format03(n) == ZeroPad(DecDigits(n), 3)

\* s.startswith(prefix)
StartsWith(s, prefix) ==
    /\ Len(prefix) <= Len(s)
    /\ SubSeq(s, 1, Len(prefix)) = prefix

\* osp.join(a, b) for a relative b: a already ends with '/' in its only use
PathJoin(a, b) == a \o b

---------------------------------------------------------------------------
\* The host's ID collections (bpy.data.*): named datablocks, names unique per
\* collection, kept and iterated in case-insensitive name order.

Lower(ch) == IF ch \in 65..90 THEN ch + 32 ELSE ch

RECURSIVE NameLeqFrom(_, _, _)
NameLeqFrom(a, b, i) ==
    IF i > Len(a) THEN TRUE
    ELSE IF i > Len(b) THEN FALSE
    ELSE IF Lower(a[i]) # Lower(b[i]) THEN Lower(a[i]) < Lower(b[i])
    ELSE NameLeqFrom(a, b, i + 1)

\* a sorts at or before b
NameLeq(a, b) == NameLeqFrom(a, b, 1)

\* the value of an expression, written {F(x) : x \in {e}} where e has to be
\* evaluated once, before F
Only(S) == CHOOSE x \in S : TRUE

IdNames(coll) == {coll[i].name : i \in 1..Len(coll)}

HasName(coll, nm) == \E i \in 1..Len(coll) : coll[i].name = nm

RECURSIVE FirstFreeName(_, _, _)
FirstFreeName(names, nm, k) ==
    LET c == nm \o <<46>> \o Format03(k)
    IN  IF c \in names THEN FirstFreeName(names, nm, k + 1) ELSE c

\* the name data_coll.new(nm, ...) gives the new datablock, names being the
\* names in use in data_coll: nm, or nm.001, nm.002, ...
UniqueName(names, nm) ==
    IF nm \in names THEN FirstFreeName(names, nm, 1) ELSE nm

\* how many of coll[lo..hi] sort at or before nm (coll is in name order, so the
\* range is halved)
RECURSIVE CountLeq(_, _, _, _)
CountLeq(coll, nm, lo, hi) ==
    IF hi < lo THEN lo - 1
    ELSE LET mid == (lo + hi) \div 2
         IN  IF NameLeq(coll[mid].name, nm) THEN CountLeq(coll, nm, mid + 1, hi)
             ELSE CountLeq(coll, nm, lo, mid - 1)

\* where a datablock named nm goes: after the last one sorting at or before it
InsertPos(coll, nm) == CountLeq(coll, nm, 1, Len(coll))

\* data_coll.new(...): rec goes in at position k + 1; rec.name is unique
IdInsert(coll, rec, k) ==
    SubSeq(coll, 1, k) \o <<rec>> \o SubSeq(coll, k + 1, Len(coll))

---------------------------------------------------------------------------
\* Angles are kept as exact multiples of pi: <<n, d>> is pi * n / d.

\* math.radians(deg)
Radians(deg) == <<deg, 180>>

\* the angle of a camera datablock the host has just created (about 39.6 deg)
DefaultAngle == <<39598, 180000>>

\* the location of an object the host has just created
NoLoc == [phi |-> <<0, 1>>, theta |-> <<0, 1>>]

---------------------------------------------------------------------------
\* Blender utility (the helpers of the add-on).

\* create_collection(context, name): a new collection, linked to the scene's
CreateCollection(colls, name) ==
    LET nm == UniqueName(IdNames(colls), name)
    IN  [collections |-> IdInsert(colls, [name |-> nm], InsertPos(colls, nm)),
         coll |-> nm]

\* create_cam_obj(context, name, parent_coll): a camera datablock and an object
\* using it, both asked to be called name, the object linked to parent_coll.
\* st is [objects, cameras, obj_names, cam_names] (the two collections and the
\* names in use in each); cam_obj and cam are the places of the new object and
\* of its datablock in them. g and c_idx are history.
CreateCamObj(st, name, parent_coll, g, c_idx) ==
    LET cam_nm == UniqueName(st.cam_names, name)
        obj_nm == UniqueName(st.obj_names, name)
        ck == InsertPos(st.cameras, cam_nm)
        ok == InsertPos(st.objects, obj_nm)
    IN  [cameras |-> IdInsert(st.cameras, [name |-> cam_nm, angle |-> DefaultAngle], ck),
         objects |-> IdInsert(st.objects,
                              [name |-> obj_nm, type |-> "CAMERA", data |-> cam_nm,
                               coll |-> parent_coll, loc |-> NoLoc,
                               gen |-> g, idx |-> c_idx], ok),
         cam_names |-> st.cam_names \cup {cam_nm},
         obj_names |-> st.obj_names \cup {obj_nm},
         cam |-> ck + 1,
         cam_obj |-> ok + 1]

\* CollectByNamePrefix with == written for startswith
CollectByNamePrefix_Exact(data_coll, prefix) ==
    SelectSeq(data_coll, LAMBDA obj : obj.name = prefix)

\* collect_by_name_prefix(data_coll, prefix): in the collection's order
CollectByNamePrefix(data_coll, prefix) ==
    SelectSeq(data_coll, LAMBDA obj : StartsWith(obj.name, prefix))

\* collect_by_name_prefix(bpy.data.objects, 'BNGP__cam'): the cameras an export
\* takes, in the order it takes them
RenderCams(objs) == CollectByNamePrefix(objs, PREFIX \o S_cam)

---------------------------------------------------------------------------
\* Camera generation (BNGP_OT_ExecCamGeneration.execute).

\* cam_coll_name = f'{PREFIX}__cam_coll'
CamCollName == PREFIX \o S_cam \o S_coll

\* CamName with the index not padded
CamName_NoPad(c_idx) == PREFIX \o S_cam \o S_us \o DecDigits(c_idx)

\* cam_name = f'{PREFIX}__cam_{c_idx:03}'
CamName(c_idx) == PREFIX \o S_cam \o S_us \o Format03(c_idx)

HoliIdx(c_idx, n_cams_holi) == c_idx % n_cams_holi

\* VertIdx with % written for //
VertIdx_Mod(c_idx, n_cams_holi) == c_idx % n_cams_holi

VertIdx(c_idx, n_cams_holi) == c_idx \div n_cams_holi

\* phi = 2.0 * PI * holi_idx / n_cams_holi
Phi(holi_idx, n_cams_holi) == <<2 * holi_idx, n_cams_holi>>

\* Theta with the rings spread from pole to pole
Theta_FromPole(vert_idx, n_cams_vert) == <<vert_idx, n_cams_vert>>

\* theta = PI * (vert_idx + 1) / (n_cams_vert + 1)
Theta(vert_idx, n_cams_vert) == <<vert_idx + 1, n_cams_vert + 1>>

\* the body of the loop for one c_idx; self is the operator's property set
GenStep(st, c_idx, self, cam_coll, g) ==
    LET holi_idx == HoliIdx(c_idx, self.n_cams_holi)
        vert_idx == VertIdx(c_idx, self.n_cams_holi)
        made == CreateCamObj(st, CamName(c_idx), cam_coll, g, c_idx)
        loc == [phi |-> Phi(holi_idx, self.n_cams_holi),
                theta |-> Theta(vert_idx, self.n_cams_vert)]
    IN  [cameras |-> [made.cameras EXCEPT ![made.cam].angle = Radians(self.cam_fov)],
         objects |-> [made.objects EXCEPT ![made.cam_obj].loc = loc],
         cam_names |-> made.cam_names,
         obj_names |-> made.obj_names]

\* for c_idx in range(lo, hi), in increasing order (the range is halved, so
\* that the evaluation nests to a depth of log(hi - lo))
RECURSIVE GenLoop(_, _, _, _, _, _)
GenLoop(st, lo, hi, self, cam_coll, g) ==
    IF hi <= lo THEN st
    ELSE IF hi = lo + 1 THEN GenStep(st, lo, self, cam_coll, g)
    ELSE LET mid == (lo + hi) \div 2
         IN  Only({GenLoop(half, mid, hi, self, cam_coll, g) :
                     half \in {GenLoop(st, lo, mid, self, cam_coll, g)}})

\* pass_props(props, child_props) followed by execute; cap bounds the scene
ExecCamGeneration(cap) ==
    LET self == [n_cams_holi |-> props.n_cams_holi,
                 n_cams_vert |-> props.n_cams_vert,
                 cam_fov |-> props.cam_fov]
        n_cams == self.n_cams_vert * self.n_cams_holi
    IN  /\ Len(RenderCams(d_objects)) + n_cams <= cap
        /\ op' = "generate"
        /\ log' = <<>>
        /\ trans_dict' = [camera_angle_x |-> <<0, 1>>, frames |-> <<>>]
        /\ IF ~tgt
           THEN \* assert(tgt_obj) fails before anything is created
                /\ result' = [ret |-> {}, exc |-> "AssertionError", report |-> ""]
                /\ UNCHANGED <<d_objects, d_cameras, d_collections, gens>>
           ELSE \E cc \in {CreateCollection(d_collections, CamCollName)} :
                \E st \in {GenLoop([objects |-> d_objects, cameras |-> d_cameras,
                                    obj_names |-> IdNames(d_objects),
                                    cam_names |-> IdNames(d_cameras)],
                                   0, n_cams, self, cc.coll, Len(gens) + 1)} :
                    /\ d_collections' = cc.collections
                    /\ d_objects' = st.objects
                    /\ d_cameras' = st.cameras
                    /\ gens' = Append(gens, n_cams)
                    /\ result' = [ret |-> {"FINISHED"}, exc |-> "", report |-> ""]
        /\ UNCHANGED <<props, tgt, scene_camera, render>>

---------------------------------------------------------------------------
\* Camera clearing (BNGP_OT_ExecCamClear.execute).
\* hs is the host data the removals touch: [objects, cameras, collections,
\* scene_camera], with gone, the names of the datablocks removed from the
\* collection being cleared, and exc.

\* data_coll.remove(obj, do_unlink=True), and data_coll.remove(obj) if it
\* raised: a datablock that is already gone raises in the try and again in the
\* except
RemoveOne(hs, nm) ==
    IF hs.exc # "" THEN hs
    ELSE IF nm \in hs.gone THEN [hs EXCEPT !.exc = "ReferenceError"]
    ELSE [hs EXCEPT !.gone = hs.gone \cup {nm}]

\* for obj in objs[lo..hi], in order (halved, as in GenLoop); stops at a raise
RECURSIVE RemoveLoop(_, _, _, _)
RemoveLoop(hs, objs, lo, hi) ==
    IF hi < lo THEN hs
    ELSE IF hi = lo THEN RemoveOne(hs, objs[lo].name)
    ELSE LET mid == (lo + hi) \div 2
         IN  Only({RemoveLoop(half, objs, mid + 1, hi) :
                     half \in {RemoveLoop(hs, objs, lo, mid)}})

\* RemoveCamerasByNamePrefix with the objects of the removed datablocks left
\* in bpy.data.objects
RemoveCamerasByNamePrefix_KeepObjects(hs0, prefix) ==
    LET objs == CollectByNamePrefix(hs0.cameras, prefix)
        hs == RemoveLoop([hs0 EXCEPT !.gone = {}], objs, 1, Len(objs))
    IN  [hs EXCEPT !.cameras = SelectSeq(hs.cameras, LAMBDA c : c.name \notin hs.gone)]

\* remove_by_name_prefix(bpy.data.cameras, prefix). The host removes with a
\* camera datablock the objects that use it as their data (an object cannot be
\* left without data), and a scene whose camera is such an object is left
\* without a camera.
RemoveCamerasByNamePrefix(hs0, prefix) ==
    LET objs == CollectByNamePrefix(hs0.cameras, prefix)
        hs == RemoveLoop([hs0 EXCEPT !.gone = {}], objs, 1, Len(objs))
        kept == SelectSeq(hs.objects, LAMBDA o : ~(o.type = "CAMERA" /\ o.data \in hs.gone))
    IN  [hs EXCEPT !.cameras = SelectSeq(hs.cameras, LAMBDA c : c.name \notin hs.gone),
                   !.objects = kept,
                   !.scene_camera = IF HasName(kept, hs.scene_camera)
                                    THEN hs.scene_camera ELSE None]

\* remove_by_name_prefix(bpy.data.collections, prefix). The host unlinks the
\* objects of a removed collection from it; they stay in bpy.data.objects.
RemoveCollectionsByNamePrefix(hs0, prefix) ==
    LET objs == CollectByNamePrefix(hs0.collections, prefix)
        hs == RemoveLoop([hs0 EXCEPT !.gone = {}], objs, 1, Len(objs))
    IN  [hs EXCEPT !.collections = SelectSeq(hs.collections,
                                             LAMBDA c : c.name \notin hs.gone),
                   !.objects = [i \in 1..Len(hs.objects) |->
                                  IF hs.objects[i].coll \in hs.gone
                                  THEN [hs.objects[i] EXCEPT !.coll = None]
                                  ELSE hs.objects[i]]]

\* the two calls of execute, the second one reached if the first did not raise
ClearAll(hs0) ==
    Only({IF hs1.exc # "" THEN hs1 ELSE RemoveCollectionsByNamePrefix(hs1, PREFIX) :
            hs1 \in {RemoveCamerasByNamePrefix(hs0, PREFIX)}})

ExecCamClear ==
    \E hs \in {ClearAll([objects |-> d_objects, cameras |-> d_cameras,
                         collections |-> d_collections,
                         scene_camera |-> scene_camera, gone |-> {}, exc |-> ""])} :
        /\ op' = "clear"
        /\ log' = <<>>
        /\ trans_dict' = [camera_angle_x |-> <<0, 1>>, frames |-> <<>>]
        /\ d_objects' = hs.objects
        /\ d_cameras' = hs.cameras
        /\ d_collections' = hs.collections
        /\ scene_camera' = hs.scene_camera
        /\ result' = IF hs.exc # ""
                     THEN [ret |-> {}, exc |-> hs.exc, report |-> ""]
                     ELSE [ret |-> {"FINISHED"}, exc |-> "", report |-> ""]
        /\ gens' = <<>>
        /\ UNCHANGED <<props, tgt, render>>

---------------------------------------------------------------------------
\* Rendering (BNGP_OT_ExecRender.execute).

\* render_width, render_height of BNGP_Props (their defaults)
RenderWidth == 512
RenderHeight == 512

\* tempfile.mkdtemp(prefix='BNGP__'): a fresh directory; the random part of
\* its name is left out ('/tmp/BNGP__')
OutDirname == <<47, 116, 109, 112, 47>> \o PREFIX \o <<95, 95>>

\* ImgBasename rebuilt from the camera's index instead of the object's name
ImgBasename_FromIndex(cam_obj) == PREFIX \o S_cam \o S_us \o Format03(cam_obj.idx) \o S_png

\* img_basename = cam_obj.name + '.png'
ImgBasename(cam_obj) == cam_obj.name \o S_png

\* frame_dict: matrix_world is a function of the object's location and of the
\* rotation computed from it
FrameDict(cam_obj) ==
    [file_path |-> PathJoin(S_dot_slash, ImgBasename(cam_obj)),
     transform_matrix |-> cam_obj.loc]

\* the body of the loop for cam_objs[i]; rs is
\* [scene_camera, filepath, frames, log, exc]; the render of camera failAt raises
RenderStep(rs, cam_obj, i, failAt) ==
    IF rs.exc # "" THEN rs
    ELSE LET rs1 == [rs EXCEPT !.scene_camera = cam_obj.name,
                               !.filepath = ImgBasename(cam_obj),
                               !.frames = Append(rs.frames, FrameDict(cam_obj))]
         IN  \* bpy.ops.render.render(write_still=True): renders the scene's
             \* camera to the render filepath
             IF i = failAt THEN [rs1 EXCEPT !.exc = "RuntimeError"]
             ELSE [rs1 EXCEPT !.log = Append(rs1.log,
                      [ev |-> "image", path |-> rs1.filepath, cam |-> rs1.scene_camera])]

\* for cam_obj in cam_objs[lo..hi], in order (halved, as in GenLoop); stops at
\* a raise
RECURSIVE RenderLoop(_, _, _, _, _)
RenderLoop(rs, cam_objs, lo, hi, failAt) ==
    IF hi < lo THEN rs
    ELSE IF hi = lo THEN RenderStep(rs, cam_objs[lo], lo, failAt)
    ELSE LET mid == (lo + hi) \div 2
         IN  Only({RenderLoop(half, cam_objs, mid + 1, hi, failAt) :
                     half \in {RenderLoop(rs, cam_objs, lo, mid, failAt)}})

\* SaveTransforms reached whether or not a render raised
SaveTransforms_Always(rs) ==
    [rs EXCEPT !.log = Append(rs.log,
        [ev |-> "json", path |-> S_transforms_json, cam |-> None])]

\* json.dump(trans_dict, f, ...) into <out_dirname>/transforms.json
SaveTransforms(rs) ==
    IF rs.exc # "" THEN rs
    ELSE [rs EXCEPT !.log = Append(rs.log,
                [ev |-> "json", path |-> S_transforms_json, cam |-> None])]

\* the part of execute after the early return
RenderAll(rs0, cam_objs, failAt) ==
    Only({SaveTransforms(rs) : rs \in {RenderLoop(rs0, cam_objs, 1, Len(cam_objs), failAt)}})

\* pass_props(props, child_props) followed by execute; failAt = 0: no render
\* fails, failAt = k: the render of the k-th camera raises
ExecRender(maxFail) ==
    LET self == [cam_fov |-> props.cam_fov,
                 render_width |-> RenderWidth,
                 render_height |-> RenderHeight]
    IN  \E cam_objs \in {RenderCams(d_objects)} :
        /\ op' = "render"
        /\ IF Len(cam_objs) = 0
           THEN /\ result' = [ret |-> {"CANCELED"}, exc |-> "",
                              report |-> "No camera objects found"]
                /\ log' = <<>>
                /\ trans_dict' = [camera_angle_x |-> <<0, 1>>, frames |-> <<>>]
                /\ UNCHANGED <<scene_camera, render>>
           ELSE \E failAt \in 0..maxFail :
                /\ failAt <= Len(cam_objs)
                /\ \E rs \in {RenderAll([scene_camera |-> scene_camera,
                                         filepath |-> render.filepath,
                                         frames |-> <<>>,
                                         log |-> <<[ev |-> "mkdtemp",
                                                    path |-> OutDirname,
                                                    cam |-> None]>>,
                                         exc |-> ""], cam_objs, failAt)} :
                       /\ render' = [resolution_x |-> self.render_width,
                                     resolution_y |-> self.render_height,
                                     file_format |-> "PNG",
                                     color_mode |-> "RGBA",
                                     color_depth |-> "8",
                                     film_transparent |-> TRUE,
                                     filepath |-> rs.filepath]
                       /\ scene_camera' = rs.scene_camera
                       /\ log' = rs.log
                       /\ trans_dict' = [camera_angle_x |-> Radians(self.cam_fov),
                                         frames |-> rs.frames]
                       /\ result' = IF rs.exc # ""
                                    THEN [ret |-> {}, exc |-> rs.exc, report |-> ""]
                                    ELSE [ret |-> {"FINISHED"}, exc |-> "",
                                          report |-> ""]
        /\ UNCHANGED <<props, tgt, d_objects, d_cameras, d_collections, gens>>

---------------------------------------------------------------------------
\* The user, between operators: edits of the panel's properties and of the
\* selection.

SetHoli(values) ==
    /\ \E h \in values : h # props.n_cams_holi /\ props' = [props EXCEPT !.n_cams_holi = h]
    /\ op' = "edit" /\ log' = <<>>
    /\ result' = [ret |-> {}, exc |-> "", report |-> ""]
    /\ trans_dict' = [camera_angle_x |-> <<0, 1>>, frames |-> <<>>]
    /\ UNCHANGED <<tgt, d_objects, d_cameras, d_collections, scene_camera, render, gens>>

SetVert(values) ==
    /\ \E v \in values : v # props.n_cams_vert /\ props' = [props EXCEPT !.n_cams_vert = v]
    /\ op' = "edit" /\ log' = <<>>
    /\ result' = [ret |-> {}, exc |-> "", report |-> ""]
    /\ trans_dict' = [camera_angle_x |-> <<0, 1>>, frames |-> <<>>]
    /\ UNCHANGED <<tgt, d_objects, d_cameras, d_collections, scene_camera, render, gens>>

\* cam_fov, in degrees (the default and one more)
FovValues == {40, 60}

SetFov ==
    /\ \E f \in FovValues : f # props.cam_fov /\ props' = [props EXCEPT !.cam_fov = f]
    /\ op' = "edit" /\ log' = <<>>
    /\ result' = [ret |-> {}, exc |-> "", report |-> ""]
    /\ trans_dict' = [camera_angle_x |-> <<0, 1>>, frames |-> <<>>]
    /\ UNCHANGED <<tgt, d_objects, d_cameras, d_collections, scene_camera, render, gens>>

\* the active object is set (the start-up scene's cube) or unset
SetActive ==
    /\ tgt' = ~tgt
    /\ op' = "edit" /\ log' = <<>>
    /\ result' = [ret |-> {}, exc |-> "", report |-> ""]
    /\ trans_dict' = [camera_angle_x |-> <<0, 1>>, frames |-> <<>>]
    /\ UNCHANGED <<props, d_objects, d_cameras, d_collections, scene_camera, render, gens>>

---------------------------------------------------------------------------
\* The host's start-up scene: a cube (active) and a camera (the scene's).

StartObjects ==
    <<[name |-> S_Camera, type |-> "CAMERA", data |-> S_Camera, coll |-> None,
       loc |-> NoLoc, gen |-> 0, idx |-> 0],
      [name |-> S_Cube, type |-> "MESH", data |-> S_Cube, coll |-> None,
       loc |-> NoLoc, gen |-> 0, idx |-> 0]>>

StartRender ==
    [resolution_x |-> 1920, resolution_y |-> 1080, file_format |-> "PNG",
     color_mode |-> "RGBA", color_depth |-> "8", film_transparent |-> FALSE,
     filepath |-> <<47, 116, 109, 112, 47>>]

InitWith(holis, verts) ==
    /\ props \in [n_cams_holi : holis, n_cams_vert : verts, cam_fov : {40}]
    /\ tgt = TRUE
    /\ d_objects = StartObjects
    /\ d_cameras = <<[name |-> S_Camera, angle |-> DefaultAngle]>>
    /\ d_collections = <<>>
    /\ scene_camera = S_Camera
    /\ render = StartRender
    /\ op = "start"
    /\ result = [ret |-> {}, exc |-> "", report |-> ""]
    /\ log = <<>>
    /\ trans_dict = [camera_angle_x |-> <<0, 1>>, frames |-> <<>>]
    /\ gens = <<>>

Init == InitWith(1..MaxHoli, 1..MaxVert)

Next ==
    \/ ExecCamGeneration(MaxObjs)
    \/ ExecCamClear
    \/ ExecRender(MaxObjs)
    \/ SetHoli(1..MaxHoli)
    \/ SetVert(1..MaxVert)
    \/ SetFov
    \/ SetActive

Spec == Init /\ [][Next]_vars

InitLarge == InitWith(LargeHoli..(LargeHoli + 1), {1})

NextLarge ==
    \/ ExecCamGeneration(LargeObjs)
    \/ ExecCamClear
    \/ ExecRender(LargeFail)
    \/ SetHoli(LargeHoli..(LargeHoli + 1))
    \/ SetFov
    \/ SetActive

SpecLarge == InitLarge /\ [][NextLarge]_vars

---------------------------------------------------------------------------
\* What the host takes from execute (the operator return items), and the file
\* system an export leaves behind.

OperatorReturnItems ==
    {"RUNNING_MODAL", "CANCELLED", "FINISHED", "PASS_THROUGH", "INTERFACE"}

\* the image writes of the last operator, in the order they were made
ImageWrites == SelectSeq(log, LAMBDA e : e.ev = "image")

\* the manifest writes of the last operator
JsonWrites == SelectSeq(log, LAMBDA e : e.ev = "json")

\* the image files in the output directory of the last operator
ImageFiles == {ImageWrites[i].path : i \in 1..Len(ImageWrites)}

Finished == result.ret = {"FINISHED"} /\ result.exc = ""

Exported == op = "render" /\ Finished

\* the (generation, index) pairs of the cameras created since the last clear
Created == {gc \in (1..Len(gens)) \X (0..(MaxObjs + LargeObjs)) : gc[2] < gens[gc[1]]}

RECURSIVE Sum(_)
Sum(s) == IF s = <<>> THEN 0 ELSE s[1] + Sum(Tail(s))

\* '__cam_' and three decimal digits after the prefix, then '.png'
ThreeDigitName(path) ==
    LET stem == PREFIX \o S_cam \o S_us
    IN  /\ Len(path) = Len(stem) + 3 + Len(S_png)
        /\ SubSeq(path, 1, Len(stem)) = stem
        /\ \A i \in (Len(stem) + 1)..(Len(stem) + 3) : IsDigit(path[i])
        /\ SubSeq(path, Len(stem) + 4, Len(path)) = S_png

\* the host's unique-name suffix: nothing, or '.' and a number >= 1 written with
\* at least three digits
IsUniqueSuffix(sfx) ==
    \/ sfx = <<>>
    \/ /\ Len(sfx) >= 4
       /\ sfx[1] = 46
       /\ \A i \in 2..Len(sfx) : IsDigit(sfx[i])
       /\ \E i \in 2..Len(sfx) : sfx[i] # 48
       /\ Len(sfx) > 4 => sfx[2] # 48

---------------------------------------------------------------------------
\* C1: one run of the generation with H = n_cams_holi and V = n_cams_vert
\* creates exactly H*V cameras, one per index c in 0..H*V-1, named after c;
\* camera c is placed at horiz_idx = c mod H and vert_idx = c div H, so every
\* pair of [0,H) x [0,V) is used by exactly one camera, and the cameras
\* v*H..(v+1)*H-1 are the ones of ring v.
C1_RingMajorPlacement ==
    (op = "generate" /\ Finished) =>
        LET H == props.n_cams_holi
            V == props.n_cams_vert
            new == {d_objects[i] : i \in {j \in 1..Len(d_objects) :
                                          d_objects[j].gen = Len(gens)}}
            holi(o) == o.loc.phi[1] \div 2
            vert(o) == o.loc.theta[1] - 1
        IN  /\ Cardinality(new) = H * V
            /\ \A c \in 0..(H * V - 1) : Cardinality({o \in new : o.idx = c}) = 1
            /\ \A o \in new :
                 /\ o.idx \in 0..(H * V - 1)
                 /\ StartsWith(o.name, CamName(o.idx))
                 /\ o.loc.phi = <<2 * (o.idx % H), H>>
                 /\ o.loc.theta = <<(o.idx \div H) + 1, V + 1>>
                 /\ \A v \in 0..(V - 1) :
                      (vert(o) = v) <=> (o.idx \in (v * H)..((v + 1) * H - 1))
            /\ \A h \in 0..(H - 1) : \A v \in 0..(V - 1) :
                 Cardinality({o \in new : holi(o) = h /\ vert(o) = v}) = 1

\* a generation of two rings of two cameras has run
C1_Witness ==
    /\ op = "generate" /\ Finished
    /\ props.n_cams_holi = 2 /\ props.n_cams_vert = 2
    /\ \E i \in 1..Len(d_objects) :
         /\ d_objects[i].gen = Len(gens) /\ d_objects[i].idx = 3
         /\ d_objects[i].loc = [phi |-> <<2, 2>>, theta |-> <<2, 3>>]

\* C2: an export of K >= 1 cameras leaves exactly K image files and a manifest
\* of exactly K frames; the i-th frame's file_path names the image rendered
\* from the i-th camera the export took, and that file was written once.
C2_OneImagePerCamera ==
    Exported =>
        LET cam_objs == RenderCams(d_objects)
            K == Len(cam_objs)
        IN  /\ K >= 1
            /\ Len(ImageWrites) = K
            /\ Cardinality(ImageFiles) = K
            /\ Len(JsonWrites) = 1
            /\ Len(trans_dict.frames) = K
            /\ \A i \in 1..K :
                 /\ ImageWrites[i].cam = cam_objs[i].name
                 /\ ImageWrites[i].path = cam_objs[i].name \o S_png
                 /\ trans_dict.frames[i].file_path = S_dot_slash \o ImageWrites[i].path
                 /\ trans_dict.frames[i].transform_matrix = cam_objs[i].loc
                 /\ \A j \in 1..K : ImageWrites[j].path = ImageWrites[i].path => j = i

\* an export of the cameras of two generations has run
C2_Witness ==
    /\ Exported
    /\ Len(gens) = 2
    /\ Len(ImageWrites) >= 3

\* C3: when one generation (from a scene without generated cameras) is followed
\* by an export, the frame at position i is the one of the camera created with
\* index i, for every i in 0..H*V-1.
C3_ManifestInPlacementOrder ==
    (Exported /\ Len(gens) = 1) =>
        LET cam_objs == RenderCams(d_objects)
        IN  /\ Len(trans_dict.frames) = gens[1]
            /\ \A i \in 1..Len(trans_dict.frames) :
                 /\ cam_objs[i].idx = i - 1
                 /\ trans_dict.frames[i].file_path
                      = S_dot_slash \o CamName(i - 1) \o S_png

\* C4: an export invoked while no camera object exists reports 'No camera
\* objects found', returns a cancelled result (one the host takes), and has no
\* side effect: no directory, no image, no manifest, the render settings and
\* the scene's camera as they were.
C4_NoCamerasCancelled ==
    [][(op' = "render" /\ Len(RenderCams(d_objects)) = 0) =>
          /\ result'.report = "No camera objects found"
          /\ result'.exc = ""
          /\ result'.ret = {"CANCELLED"}
          /\ result'.ret \subseteq OperatorReturnItems
          /\ log' = <<>>
          /\ UNCHANGED <<render, scene_camera, d_objects, d_cameras, d_collections>>]_vars

\* the part of C4 the code does keep: the early return has no side effect
C4_NoSideEffect ==
    [][(op' = "render" /\ Len(RenderCams(d_objects)) = 0) =>
          /\ result'.report = "No camera objects found"
          /\ result'.exc = ""
          /\ log' = <<>>
          /\ UNCHANGED <<render, scene_camera, d_objects, d_cameras, d_collections>>]_vars

\* C5: a clear returns FINISHED without raising and leaves no camera datablock
\* and no collection whose name starts with the prefix, and no generated camera
\* object for an export to find; a clear right after a clear changes nothing.
C5_ClearRemovesAll ==
    /\ [](op = "clear" =>
            /\ Finished
            /\ \A i \in 1..Len(d_cameras) : ~StartsWith(d_cameras[i].name, PREFIX)
            /\ \A i \in 1..Len(d_collections) : ~StartsWith(d_collections[i].name, PREFIX)
            /\ \A i \in 1..Len(d_objects) :
                 /\ ~StartsWith(d_objects[i].name, PREFIX)
                 /\ d_objects[i].gen = 0)
    /\ [][(op = "clear" /\ op' = "clear") =>
            UNCHANGED <<props, tgt, d_objects, d_cameras, d_collections,
                        scene_camera, render>>]_vars

\* a clear has removed generated cameras, the scene's camera among them (an
\* export had made one of them the scene's camera)
C5_Witness ==
    /\ op = "clear"
    /\ scene_camera = None
    /\ Len(d_objects) = 2

\* C6: every image file an export writes is named <prefix>__cam_<three decimal
\* digits>.png.
C6_ThreeDigitNames ==
    op = "render" => \A i \in 1..Len(ImageWrites) : ThreeDigitName(ImageWrites[i].path)

\* C6 as amended: every image file an export writes is named after the camera
\* object it was rendered from, <prefix>__cam_<index>[<suffix>].png: the index
\* the camera was created with, zero-padded to at least three digits, then the
\* host's unique-name suffix if the host had to add one.
C6_CameraObjectNames ==
    op = "render" =>
        LET cam_objs == RenderCams(d_objects)
        IN  \A i \in 1..Len(ImageWrites) :
              LET path == ImageWrites[i].path
                  base == CamName(cam_objs[i].idx)
              IN  /\ Len(base) >= Len(PREFIX \o S_cam \o S_us) + 3
                  /\ StartsWith(path, base)
                  /\ Len(path) >= Len(base) + Len(S_png)
                  /\ SubSeq(path, Len(path) - Len(S_png) + 1, Len(path)) = S_png
                  /\ IsUniqueSuffix(SubSeq(path, Len(base) + 1, Len(path) - Len(S_png)))

\* an export has written the image of a camera whose name the host made unique
C6_Witness ==
    /\ Exported
    /\ \E i \in 1..Len(ImageWrites) : ImageWrites[i].path = CamName(1) \o <<46>> \o Format03(1) \o S_png

\* C7: every generated camera has 0 < vert_idx + 1 < V + 1: its elevation
\* pi * (vert_idx + 1) / (V + 1) is neither 0 nor pi.
C7_NoCameraAtPole ==
    \A i \in 1..Len(d_objects) :
        d_objects[i].gen > 0 =>
            LET theta == d_objects[i].loc.theta
                H == d_objects[i].loc.phi[2]
            IN  /\ theta[1] = (d_objects[i].idx \div H) + 1
                /\ 0 < theta[1]
                /\ theta[1] < theta[2]

\* a camera of the second of two rings exists
C7_Witness ==
    \E i \in 1..Len(d_objects) :
        /\ d_objects[i].gen > 0
        /\ d_objects[i].loc.theta = <<2, 3>>

\* C8: an export that returns has written transforms.json once, as its last
\* write, after the images of all its cameras; an export in which a render
\* raised has raised, has written no transforms.json, and leaves the directory
\* with the images of the cameras before the failing one.
C8_ManifestLast ==
    (op = "render" /\ Len(RenderCams(d_objects)) > 0) =>
        LET K == Len(RenderCams(d_objects))
        IN  /\ log[1].ev = "mkdtemp"
            /\ \A i \in 2..Len(log) : log[i].ev # "mkdtemp"
            /\ Finished \/ (result.exc = "RuntimeError" /\ result.ret = {})
            /\ Finished =>
                 /\ Len(log) = K + 2
                 /\ \A i \in 2..(K + 1) : log[i].ev = "image"
                 /\ log[K + 2].ev = "json"
                 /\ log[K + 2].path = S_transforms_json
            /\ ~Finished =>
                 /\ Len(JsonWrites) = 0
                 /\ Len(trans_dict.frames) \in 1..K
                 /\ Len(ImageWrites) = Len(trans_dict.frames) - 1
                 /\ \A i \in 1..Len(ImageWrites) :
                      ImageWrites[i].path = RenderCams(d_objects)[i].name \o S_png

\* a render raised after the image of an earlier camera had been written
C8_Witness ==
    /\ op = "render"
    /\ result.exc = "RuntimeError"
    /\ Len(ImageWrites) >= 1
    /\ Len(JsonWrites) = 0

\* C9: the camera_angle_x of the manifest equals the angle of every camera
\* listed in its frames.
C9_ManifestAngleIsCameraAngle ==
    Exported =>
        LET cam_objs == RenderCams(d_objects)
        IN  \A i \in 1..Len(cam_objs) :
              \A j \in 1..Len(d_cameras) :
                d_cameras[j].name = cam_objs[i].data =>
                    d_cameras[j].angle = trans_dict.camera_angle_x

\* C10: the cameras an export processes are exactly the cameras created by the
\* generations since the last clear, each once; their number is the sum of H*V
\* over those generations.
C10_ExportsCreatedSinceClear ==
    Exported =>
        LET cam_objs == RenderCams(d_objects)
            taken == {ImageWrites[i].cam : i \in 1..Len(ImageWrites)}
        IN  /\ taken = {cam_objs[i].name : i \in 1..Len(cam_objs)}
            /\ {<<cam_objs[i].gen, cam_objs[i].idx>> : i \in 1..Len(cam_objs)} = Created
            /\ Len(trans_dict.frames) = Sum(gens)
            /\ Cardinality(taken) = Sum(gens)

\* an export has processed the cameras of two generations made without a clear
\* in between
C10_Witness ==
    /\ Exported
    /\ Len(gens) = 2
    /\ Len(trans_dict.frames) = gens[1] + gens[2]
    /\ Len(d_collections) = 2

====
